---------------------------- MODULE Spec2Model ----------------------------
(***************************************************************************)
(* The contact-form webhook of node/contact-form-app/index.js: one POST    *)
(* endpoint that answers Google Chat interaction events, together with the *)
(* Chat client that renders the answers and sends the next event when a    *)
(* rendered button is clicked (Spec); the same endpoint with several       *)
(* requests in flight (SpecPool); its fetchFormValue on its own            *)
(* (SpecFetch); the AI service of unnamed/part_001 and of                  *)
(* node/ai-knowledge-assistant/services/aip-service.js (SpecAI); and the   *)
(* incident form's page script of unnamed/part_002 (SpecPage).  Each       *)
(* specification starts from Init and moves its own variables only.        *)
(*                                                                         *)
(* JavaScript values are tagged records, because a JSON position may hold  *)
(* a string, a number, null or nothing at all:                             *)
(*    Str(s)      a string                                                 *)
(*    Num(d, r)   the number d * MsPerDay + r, 0 <= r < MsPerDay (a        *)
(*                millisecond timestamp does not fit TLC's 32-bit          *)
(*                integers, so it is held as whole days and a remainder)   *)
(*    NaN, Null, Undefined                                                 *)
(* A JSON object is a record with the same keys; an absent key is a key    *)
(* that is not in the record's DOMAIN.  A string built by concatenation is *)
(* the sequence of its non-empty pieces.                                   *)
(***************************************************************************)
EXTENDS Integers, Sequences, FiniteSets, TLC

VARIABLES
  tzOffsetMin,  \* the server's local time zone, minutes east of UTC
  event,        \* the request body handled last
  response,     \* what the endpoint did with it
  ui,           \* what the Chat client shows after rendering the responses
  from,         \* the ui the last event was clicked in (NoUi: not a click)
  \* the endpoint under concurrent requests
  inflight,            \* the requests received and not yet delivered
  contactFormWidgets,  \* the module-level array CONTACT_FORM_WIDGETS
  \* fetchFormValue called on its own
  fetchCall,    \* the event and the widget name it was called with last
  fetchResult,  \* what that call returned
  \* one invocation of an AIPService operation
  aiCall,       \* the service, the operation and its argument
  aiPc,         \* the statement the invocation is at
  aiTrace,      \* callPredict's local "trace": whether it has been assigned
  aiRequests,   \* the chat-completion requests the invocation has issued
  aiCaught,     \* the error callPredict's catch block holds
  aiLog,        \* what the invocation wrote with console.error
  aiOutcome,    \* what the invocation gave its caller
  \* the incident form's page
  formDiv,      \* the class list of the element "form"
  outputDiv,    \* the class list and the innerHTML of the element "output"
  clearDiv,     \* the class list of the element "clear"
  serverCalls,  \* the google.script.run calls that have not called back
  trail         \* the handlers the page has run, oldest first

webhookVars == <<tzOffsetMin, event, response, ui, from>>
poolVars == <<inflight, contactFormWidgets>>
fetchVars == <<fetchCall, fetchResult>>
aiVars == <<aiCall, aiPc, aiTrace, aiRequests, aiCaught, aiLog, aiOutcome>>
pageVars == <<formDiv, outputDiv, clearDiv, serverCalls, trail>>

vars == <<webhookVars, poolVars, fetchVars, aiVars, pageVars>>

-----------------------------------------------------------------------------
(* JavaScript values *)

Str(s) == [t |-> "string", s |-> s]
Num(d, r) == [t |-> "number", days |-> d, ms |-> r]
NaN == [t |-> "NaN"]
Null == [t |-> "null"]
Undefined == [t |-> "undefined"]

MsPerDay == 24 * 60 * 60 * 1000

\* x ?? y
Coalesce(x, y) == IF x \in {Null, Undefined} THEN y ELSE x

\* !x
Falsy(x) == x \in {Undefined, Null, NaN, Str(""), Num(0, 0)}

\* Number(x), for the values the handler passes to it.  A string of this
\* model is either empty (0) or holds letters (NaN).
ToNumber(x) ==
  CASE x.t = "number" -> x
    [] x.t = "string" -> IF x.s = "" THEN Num(0, 0) ELSE NaN
    [] x.t = "null" -> Num(0, 0)
    [] OTHER -> NaN

\* The pieces of "literal" + x for a string x; empty pieces vanish.
Cat(pieces) == SelectSeq(pieces, LAMBDA p : p # "")

\* Whether the string s occurs as a piece of the text.
Contains(text, s) == s = "" \/ \E i \in DOMAIN text : text[i] = s

-----------------------------------------------------------------------------
(* Date.prototype.toLocaleDateString('en-US', {year: 'numeric', month:     *)
(* 'long', day: 'numeric'}).  No timeZone option is given, so the date is   *)
(* the calendar date in the server's local time zone, taken here as a fixed *)
(* offset from UTC.                                                         *)

MonthNames ==
  <<"January", "February", "March", "April", "May", "June", "July",
    "August", "September", "October", "November", "December">>

Digits == <<"0", "1", "2", "3", "4", "5", "6", "7", "8", "9">>

\* The decimal numeral of a natural number.
RECURSIVE DecStr(_)
DecStr(n) ==
  IF n < 10 THEN Digits[n + 1] ELSE DecStr(n \div 10) \o Digits[(n % 10) + 1]

\* n written with at least five digits.
Pad5(n) ==
  (IF n < 10 THEN "0000" ELSE IF n < 100 THEN "000" ELSE IF n < 1000 THEN "00"
   ELSE IF n < 10000 THEN "0" ELSE "") \o DecStr(n)

\* The numeral of the natural number d * MsPerDay + r, from its parts above
\* and below 10^5 (MsPerDay = 864 * 10^5).
DecStrMs(d, r) ==
  LET hi == d * 864 + r \div 100000
      lo == r % 100000
  IN  IF hi = 0 THEN DecStr(lo) ELSE DecStr(hi) \o Pad5(lo)

\* String(x): what "literal" + x appends.
JsString(x) ==
  CASE x.t = "string" -> x.s
    [] x.t = "number" ->
         IF x.days >= 0 THEN DecStrMs(x.days, x.ms)
         ELSE IF x.ms = 0 THEN "-" \o DecStrMs(-x.days, 0)
         ELSE "-" \o DecStrMs(-x.days - 1, MsPerDay - x.ms)
    [] OTHER -> x.t

\* The proleptic Gregorian date of the day that is `days` days after
\* 1970-01-01.
CivilFromDays(days) ==
  LET z == days + 719468
      era == z \div 146097
      doe == z - era * 146097
      yoe == (doe - doe \div 1460 + doe \div 36524 - doe \div 146096) \div 365
      doy == doe - (365 * yoe + yoe \div 4 - yoe \div 100)
      mp == (5 * doy + 2) \div 153
      d == doy - (153 * mp + 2) \div 5 + 1
      m == IF mp < 10 THEN mp + 3 ELSE mp - 9
      y == yoe + era * 400 + (IF m <= 2 THEN 1 ELSE 0)
  IN  [year |-> y, month |-> m, day |-> d]

\* The local calendar day a timestamp falls on, counted from 1970-01-01.
LocalDay(n, offsetMin) == n.days + ((n.ms + offsetMin * 60 * 1000) \div MsPerDay)

toLocaleDateString(n, offsetMin) ==
  IF n = NaN THEN "Invalid Date"
  ELSE LET c == CivilFromDays(LocalDay(n, offsetMin))
       IN  MonthNames[c.month] \o " " \o DecStr(c.day) \o ", " \o DecStr(c.year)

\* Faulty variant: the month looked up by its 1-based number in a 0-based table.
MutConvertMonthIndex(millis, offsetMin) ==
  LET n == ToNumber(millis)
  IN  IF n = NaN THEN "Invalid Date"
      ELSE LET c == CivilFromDays(LocalDay(n, offsetMin))
           IN  MonthNames[(c.month % 12) + 1] \o " " \o DecStr(c.day)
                 \o ", " \o DecStr(c.year)

convertMillisToDateString(millis, offsetMin) ==
  toLocaleDateString(ToNumber(millis), offsetMin)

-----------------------------------------------------------------------------
(* The handlers of index.js.  A handler's result is Return(object),        *)
(* ReturnsUndefined (it fell off its end) or Throws (a TypeError from      *)
(* reading a property of undefined).                                       *)

Return(obj) == [k |-> "return", v |-> obj]
ReturnsUndefined == [k |-> "undefined"]
Throws == [k |-> "throw"]

EmptyObject == [k \in {} |-> k]

Has(obj, key) == key \in DOMAIN obj

CONTACT_FORM_WIDGETS ==
  << [textInput |->
        [name |-> "contactName", label |-> "First and last name",
         type |-> "SINGLE_LINE"]],
     [dateTimePicker |->
        [name |-> "contactBirthdate", label |-> "Birthdate",
         type |-> "DATE_ONLY"]],
     [selectionInput |->
        [name |-> "contactType", label |-> "Contact type",
         type |-> "RADIO_BUTTON",
         items |-> << [text |-> "Work", value |-> "Work", selected |-> FALSE],
                      [text |-> "Personal", value |-> "Personal",
                       selected |-> FALSE] >>]] >>

ReviewAndSubmitButton ==
  [buttonList |-> [buttons |->
     << [text |-> "Review and submit",
         onClick |-> [action |-> [function |-> "openConfirmation"]]] >>]]

openInitialDialog ==
  Return([actionResponse |->
    [type |-> "DIALOG",
     dialogAction |-> [dialog |-> [body |-> [sections |->
       << [header |-> "Add new contact",
           widgets |-> CONTACT_FORM_WIDGETS \o <<ReviewAndSubmitButton>>] >>]]]]])

AboutMessage ==
  [text |-> <<"Manage your personal and business contacts U+1F4C7. To add a contact, use the slash command '/addContact'.">>,
   accessoryWidgets |->
     << [buttonList |-> [buttons |->
          << [text |-> "Add Contact",
              onClick |-> [action |->
                [function |-> "openInitialDialog",
                 interaction |-> "OPEN_DIALOG"]]] >>]] >>]

AddContactCardMessage(e) ==
  [privateMessageViewer |-> e.user,
   text |-> <<"To add a contact, try '/addContact' or complete the form below:">>,
   cardsV2 |->
     << [cardId |-> "addContactForm",
         card |-> [header |-> [title |-> "Add a contact"],
                   sections |->
                     << [widgets |-> CONTACT_FORM_WIDGETS
                                       \o <<ReviewAndSubmitButton>>] >>]] >>]

\* Faulty variant: every message opens the dialog.
MutOnMessageAlwaysDialog(e) ==
  IF ~Has(e, "message") THEN Throws ELSE openInitialDialog

onMessage(e) ==
  IF ~Has(e, "message") THEN Throws
  ELSE IF Has(e.message, "slashCommand")
            /\ e.message.slashCommand.commandId = "1"
         THEN Return(AboutMessage)
  ELSE IF Has(e.message, "slashCommand")
            /\ e.message.slashCommand.commandId = "2"
         THEN openInitialDialog
  ELSE Return(AddContactCardMessage(e))

\* Faulty variant: the last string of the list is returned, not the first.
MutFetchFormValueLast(e, widgetName) ==
  IF ~Has(e.common, "formInputs") \/ ~Has(e.common.formInputs, widgetName)
    THEN Throws
  ELSE LET formItem == e.common.formInputs[widgetName]
       IN  IF Has(formItem, "stringInputs")
             THEN IF Len(formItem.stringInputs.value) > 0
                    THEN Return(Str(formItem.stringInputs.value[
                                      Len(formItem.stringInputs.value)]))
                    ELSE Return(Null)
           ELSE IF Has(formItem, "dateInput")
             THEN IF formItem.dateInput.msSinceEpoch \notin {Null, Undefined}
                    THEN Return(formItem.dateInput.msSinceEpoch)
                    ELSE Return(Null)
           ELSE Return(Null)

\* The value the user entered in a widget: Throws when the widget has no
\* entry in formInputs, Null when its entry holds no value.
fetchFormValue(e, widgetName) ==
  IF ~Has(e.common, "formInputs") \/ ~Has(e.common.formInputs, widgetName)
    THEN Throws
  ELSE LET formItem == e.common.formInputs[widgetName]
       IN  IF Has(formItem, "stringInputs")
             THEN IF Len(formItem.stringInputs.value) > 0
                    THEN Return(Str(formItem.stringInputs.value[1]))
                    ELSE Return(Null)
           ELSE IF Has(formItem, "dateInput")
             THEN IF formItem.dateInput.msSinceEpoch \notin {Null, Undefined}
                    THEN Return(formItem.dateInput.msSinceEpoch)
                    ELSE Return(Null)
           ELSE Return(Null)

\* The checkmark emoji and the space after it.  (Strings here are ASCII: an
\* emoji is written as its code point, a backtick as an apostrophe.)
CheckMark == "U+2705 "

errorMessage == "Don't forget to name your new contact!"

TextParagraph(text) == [textParagraph |-> [text |-> text]]

\* Faulty variant: the name and the type change places in the parameters.
MutSubmitButtonSwapped(name, birthdate, type) ==
  [buttonList |-> [buttons |->
     << [text |-> "Submit",
         onClick |-> [action |->
           [function |-> "submitForm",
            parameters |->
              << [key |-> "contactName", value |-> type],
                 [key |-> "contactBirthdate", value |-> birthdate],
                 [key |-> "contactType", value |-> name] >>]]] >>]]

SubmitButton(name, birthdate, type) ==
  [buttonList |-> [buttons |->
     << [text |-> "Submit",
         onClick |-> [action |->
           [function |-> "submitForm",
            parameters |->
              << [key |-> "contactName", value |-> name],
                 [key |-> "contactBirthdate", value |-> birthdate],
                 [key |-> "contactType", value |-> type] >>]]] >>]]

cardConfirmation(name, birthdate, type, offsetMin) ==
  [header |-> "Your contact",
   widgets |->
     << TextParagraph(<<"Confirm contact information and submit:">>),
        TextParagraph(Cat(<<"<b>Name:</b> ", JsString(name)>>)),
        TextParagraph(Cat(<<"<b>Birthday:</b> ",
                            convertMillisToDateString(birthdate, offsetMin)>>)),
        TextParagraph(Cat(<<"<b>Type:</b> ", JsString(type)>>)),
        SubmitButton(name, birthdate, type) >>]

\* Faulty variant: the summary step rejects an empty name.
MutOpenConfirmationValidates(e, offsetMin) ==
  LET n == fetchFormValue(e, "contactName")
      b == fetchFormValue(e, "contactBirthdate")
      t == fetchFormValue(e, "contactType")
  IN  IF Throws \in {n, b, t} THEN Throws
      ELSE IF Falsy(Coalesce(n.v, Str("")))
        THEN Return([privateMessageViewer |-> e.user,
                     text |-> <<"Don't forget to name your new contact!">>])
      ELSE LET card == cardConfirmation(Coalesce(n.v, Str("")),
                                        Coalesce(b.v, Str("")),
                                        Coalesce(t.v, Str("")), offsetMin)
           IN  IF e.isDialogEvent
                 THEN Return([action_response |->
                        [type |-> "DIALOG",
                         dialogAction |-> [dialog |-> [body |->
                           [sections |-> <<card>>]]]]])
                 ELSE Return([actionResponse |-> [type |-> "UPDATE_MESSAGE"],
                              privateMessageViewer |-> e.user,
                              cardsV2 |-> << [card |-> [sections |-> <<card>>]] >>])

openConfirmation(e, offsetMin) ==
  LET n == fetchFormValue(e, "contactName")
      b == fetchFormValue(e, "contactBirthdate")
      t == fetchFormValue(e, "contactType")
  IN  IF Throws \in {n, b, t} THEN Throws
      ELSE LET card == cardConfirmation(Coalesce(n.v, Str("")),
                                        Coalesce(b.v, Str("")),
                                        Coalesce(t.v, Str("")), offsetMin)
           IN  IF e.isDialogEvent
                 THEN Return([action_response |->
                        [type |-> "DIALOG",
                         dialogAction |-> [dialog |-> [body |->
                           [sections |-> <<card>>]]]]])
                 ELSE Return([actionResponse |-> [type |-> "UPDATE_MESSAGE"],
                              privateMessageViewer |-> e.user,
                              cardsV2 |-> << [card |-> [sections |-> <<card>>]] >>])

ActionStatus(code, message) ==
  [actionResponse |->
    [type |-> "DIALOG",
     dialogAction |-> [actionStatus |->
       [statusCode |-> code, userFacingMessage |-> message]]]]

\* event.common.parameters["contactName"]
ContactNameOf(e) ==
  IF Has(e.common.parameters, "contactName")
    THEN e.common.parameters.contactName ELSE Undefined

InvalidArgumentStatus == ActionStatus("INVALID_ARGUMENT", <<errorMessage>>)

ErrorTextMessage(e) == [privateMessageViewer |-> e.user, text |-> <<errorMessage>>]

OkStatus(contactName) ==
  ActionStatus("OK", Cat(<<"Success ", JsString(contactName)>>))

ConfirmationMessage(e, contactName) ==
  [actionResponse |-> [type |-> "NEW_MESSAGE"],
   privateMessageViewer |-> e.user,
   text |-> Cat(<<CheckMark, JsString(contactName),
                  " has been added to your contacts.">>)]

\* Faulty variant: the empty name is answered with the text message in a dialog too.
MutSubmitFormNoStatus(e) ==
  IF ~Has(e.common, "parameters") THEN Throws
  ELSE IF Falsy(ContactNameOf(e)) THEN Return(ErrorTextMessage(e))
  ELSE IF e.dialogEventType = "SUBMIT_DIALOG"
         THEN Return(OkStatus(ContactNameOf(e)))
  ELSE Return(ConfirmationMessage(e, ContactNameOf(e)))

\* Faulty variant: the confirmation text leaves the name out.
MutSubmitFormNoName(e) ==
  IF ~Has(e.common, "parameters") THEN Throws
  ELSE IF Falsy(ContactNameOf(e)) /\ e.dialogEventType = "SUBMIT_DIALOG"
         THEN Return(InvalidArgumentStatus)
  ELSE IF Falsy(ContactNameOf(e)) THEN Return(ErrorTextMessage(e))
  ELSE IF e.dialogEventType = "SUBMIT_DIALOG"
         THEN Return(OkStatus(ContactNameOf(e)))
  ELSE Return(ConfirmationMessage(e, Str("")))

\* Faulty variant: the dialog test of the success branch is inverted.
MutSubmitFormFlipped(e) ==
  IF ~Has(e.common, "parameters") THEN Throws
  ELSE IF Falsy(ContactNameOf(e)) /\ e.dialogEventType = "SUBMIT_DIALOG"
         THEN Return(InvalidArgumentStatus)
  ELSE IF Falsy(ContactNameOf(e)) THEN Return(ErrorTextMessage(e))
  ELSE IF e.dialogEventType # "SUBMIT_DIALOG"
         THEN Return(OkStatus(ContactNameOf(e)))
  ELSE Return(ConfirmationMessage(e, ContactNameOf(e)))

\* Faulty variant: outside a dialog the name is not checked.
MutSubmitFormNoValidation(e) ==
  IF ~Has(e.common, "parameters") THEN Throws
  ELSE IF Falsy(ContactNameOf(e)) /\ e.dialogEventType = "SUBMIT_DIALOG"
         THEN Return(InvalidArgumentStatus)
  ELSE IF e.dialogEventType = "SUBMIT_DIALOG"
         THEN Return(OkStatus(ContactNameOf(e)))
  ELSE Return(ConfirmationMessage(e, ContactNameOf(e)))

submitForm(e) ==
  IF ~Has(e.common, "parameters") THEN Throws
  ELSE IF Falsy(ContactNameOf(e)) /\ e.dialogEventType = "SUBMIT_DIALOG"
         THEN Return(InvalidArgumentStatus)
  ELSE IF Falsy(ContactNameOf(e)) THEN Return(ErrorTextMessage(e))
  ELSE IF e.dialogEventType = "SUBMIT_DIALOG"
         THEN Return(OkStatus(ContactNameOf(e)))
  ELSE Return(ConfirmationMessage(e, ContactNameOf(e)))

onCardClick(e, offsetMin) ==
  IF ~Has(e, "common") THEN Throws
  ELSE IF e.common.invokedFunction = "openInitialDialog" THEN openInitialDialog
  ELSE IF e.common.invokedFunction = "openConfirmation"
         THEN openConfirmation(e, offsetMin)
  ELSE IF e.common.invokedFunction = "submitForm" THEN submitForm(e)
  ELSE ReturnsUndefined

\* app.post('/'): what the endpoint does with a request body.  "json" sends
\* the body; "empty" is res.json(undefined), which sends nothing after the
\* headers; "throw" is the rejected handler, which sends no answer at all.
appPost(e, offsetMin) ==
  LET body == IF e.type = "MESSAGE" THEN onMessage(e)
              ELSE IF e.type = "CARD_CLICKED" THEN onCardClick(e, offsetMin)
              ELSE Return(EmptyObject)
  IN  CASE body.k = "return" -> [outcome |-> "json", body |-> body.v]
        [] body.k = "undefined" -> [outcome |-> "empty"]
        [] body.k = "throw" -> [outcome |-> "throw"]

-----------------------------------------------------------------------------
(* The events the endpoint is sent. *)

\* Longest stringInputs.value list an event carries.
MaxValues == 2

TimeZones == {-480, 0, 330}

User == [name |-> "users/1", displayName |-> "Grace"]

\* 1990-01-01T00:00:00.000Z (631152000000) and 2000-02-29T23:59:59.999Z
Timestamps == {Num(7305, 0), Num(11016, MsPerDay - 1)}

ValueLists(first) ==
  {<<>>} \cup {<<s>> \o [i \in 1..k |-> "Bob"] : s \in first, k \in 0..(MaxValues - 1)}

StringItem(value) == [stringInputs |-> [value |-> value]]
DateItem(ms) == [dateInput |-> [msSinceEpoch |-> ms]]
TimeItem == [timeInput |-> [hours |-> 9, minutes |-> 30]]

\* What formInputs may hold under each widget's name.
NameItems ==
  {StringItem(v) : v \in ValueLists({"Ada"}) \cup {<<"">>}} \cup {TimeItem}
BirthdateItems ==
  {DateItem(ms) : ms \in Timestamps \cup {Null}} \cup {StringItem(<<"Ada">>)}
TypeItems == {StringItem(<<"Work">>), StringItem(<<>>)}

FullItems ==
  [contactName |-> StringItem(<<"Ada">>),
   contactBirthdate |-> DateItem(Num(7305, 0)),
   contactType |-> StringItem(<<"Work">>)]

\* The maps with an entry for each widget, and those that lack entries.
FormInputMaps ==
  {[contactName |-> n, contactBirthdate |-> b, contactType |-> t] :
     n \in NameItems, b \in BirthdateItems, t \in TypeItems}
  \cup {[k \in (DOMAIN FullItems) \ {missing} |-> FullItems[k]] :
          missing \in DOMAIN FullItems}
  \cup {EmptyObject}

ParameterMaps ==
  {[contactName |-> n, contactBirthdate |-> b, contactType |-> t] :
     n \in {Str(""), Str("Ada")},
     b \in {Str(""), Num(7305, 0)}, t \in {Str(""), Str("Work")}}
  \cup {[contactBirthdate |-> Num(7305, 0), contactType |-> Str("Work")]}

DialogEventTypes == {"NONE", "REQUEST_DIALOG", "SUBMIT_DIALOG"}

CardClicked(common, isDialogEvent, dialogEventType) ==
  [type |-> "CARD_CLICKED", user |-> User, common |-> common,
   isDialogEvent |-> isDialogEvent, dialogEventType |-> dialogEventType]

MessageEvents ==
  {[type |-> "MESSAGE", user |-> User, message |-> [text |-> "hello"]],
   [type |-> "MESSAGE", user |-> User]}
  \cup {[type |-> "MESSAGE", user |-> User,
         message |-> [text |-> "/command", slashCommand |-> [commandId |-> c]]] :
          c \in {"1", "2", "3"}}

OtherEvents ==
  {[type |-> t, user |-> User] : t \in {"ADDED_TO_SPACE", "REMOVED_FROM_SPACE"}}

\* The events of a button click: of a form's "Review and submit" (in a
\* dialog or in a card), of a summary's "Submit", of "Add Contact", and the
\* ones that lack what the handler reads or name a function it does not know.
CardClickedEvents ==
  {CardClicked([invokedFunction |-> "openConfirmation", formInputs |-> fi],
               d = "SUBMIT_DIALOG", d) :
     fi \in FormInputMaps, d \in {"NONE", "SUBMIT_DIALOG"}}
  \cup {CardClicked([invokedFunction |-> "submitForm", parameters |-> pm],
                    d # "NONE", d) :
          pm \in ParameterMaps, d \in DialogEventTypes}
  \cup {CardClicked([invokedFunction |-> f], d # "NONE", d) :
          f \in {"openInitialDialog", "openConfirmation", "submitForm",
                 "closeDialog"},
          d \in {"NONE", "REQUEST_DIALOG"}}
  \cup {[type |-> "CARD_CLICKED", user |-> User, isDialogEvent |-> FALSE,
         dialogEventType |-> "NONE"]}

-----------------------------------------------------------------------------
(* The Chat client: it renders each answer and, when the user clicks the   *)
(* button of what it shows, sends the CARD_CLICKED event that the button's *)
(* action describes.                                                       *)

NoUi == [shown |-> "nothing", widgets |-> <<>>]

\* The envelope of an answer, under either spelling of its key.
Envelope(body) ==
  IF Has(body, "actionResponse") THEN body.actionResponse
  ELSE IF Has(body, "action_response") THEN body.action_response
  ELSE [type |-> "NONE"]

Render(shown, resp) ==
  IF resp.outcome # "json" THEN shown
  ELSE LET body == resp.body
           env == Envelope(body)
       IN  IF env.type = "DIALOG" /\ Has(env.dialogAction, "dialog")
             THEN [shown |-> "dialog",
                   widgets |-> env.dialogAction.dialog.body.sections[1].widgets]
           ELSE IF env.type = "DIALOG"
             THEN IF env.dialogAction.actionStatus.statusCode = "OK"
                    THEN NoUi ELSE shown
           ELSE IF Has(body, "cardsV2")
             THEN [shown |-> "card",
                   widgets |-> body.cardsV2[1].card.sections[1].widgets]
           ELSE IF Has(body, "accessoryWidgets")
             THEN [shown |-> "message", widgets |-> body.accessoryWidgets]
           ELSE IF Has(body, "text") THEN [shown |-> "message", widgets |-> <<>>]
           ELSE shown

HasButton(shown) ==
  Len(shown.widgets) > 0 /\ Has(shown.widgets[Len(shown.widgets)], "buttonList")

ButtonAction(shown) ==
  shown.widgets[Len(shown.widgets)].buttonList.buttons[1].onClick.action

HasInputs(shown) == \E i \in DOMAIN shown.widgets : Has(shown.widgets[i], "textInput")

\* The event's parameters object of a button's parameters list.
ParametersOf(list) ==
  [k \in {list[i].key : i \in DOMAIN list} |->
     LET i == CHOOSE j \in DOMAIN list : list[j].key = k IN list[i].value]

\* The event Chat sends when the button of `shown` is clicked with the form
\* filled in as formInputs.
ClickEvent(shown, formInputs) ==
  LET action == ButtonAction(shown)
      opens == Has(action, "interaction") /\ action.interaction = "OPEN_DIALOG"
      inDialog == shown.shown = "dialog"
      dialogEventType == IF opens THEN "REQUEST_DIALOG"
                         ELSE IF inDialog THEN "SUBMIT_DIALOG" ELSE "NONE"
      common ==
        IF Has(action, "parameters")
          THEN [invokedFunction |-> action.function,
                parameters |-> ParametersOf(action.parameters)]
        ELSE IF HasInputs(shown)
          THEN [invokedFunction |-> action.function, formInputs |-> formInputs]
        ELSE [invokedFunction |-> action.function]
  IN  CardClicked(common, opens \/ inDialog, dialogEventType)

-----------------------------------------------------------------------------
(* The state machine *)

NoEvent == [type |-> "NONE"]

\* fetchFormValue has not been called.
NoFetch == [k |-> "none"]

\* The incident form's page as its HTML loads it: the form is shown, the
\* output and the reset control carry the class "hidden".
FormAsLoaded == {}
OutputAsLoaded == [classList |-> {"hidden"}, innerHTML |-> <<>>]
ClearAsLoaded == {"hidden"}

\* No operation of the AI service has been invoked; an invocation that has
\* caught no error; one that has not given its caller anything yet.
NoCall == [operation |-> "none"]
NoError == [k |-> "none"]
NoOutcome == [k |-> "pending"]

Init ==
  /\ tzOffsetMin \in TimeZones
  /\ event = NoEvent
  /\ response = [outcome |-> "none"]
  /\ ui = NoUi
  /\ from = NoUi
  /\ inflight = <<>>
  /\ contactFormWidgets = CONTACT_FORM_WIDGETS
  /\ fetchCall = NoFetch
  /\ fetchResult = NoFetch
  /\ aiCall = NoCall
  /\ aiPc = "idle"
  /\ aiTrace = FALSE
  /\ aiRequests = <<>>
  /\ aiCaught = NoError
  /\ aiLog = <<>>
  /\ aiOutcome = NoOutcome
  /\ formDiv = FormAsLoaded
  /\ outputDiv = OutputAsLoaded
  /\ clearDiv = ClearAsLoaded
  /\ serverCalls = <<>>
  /\ trail = <<>>

\* One request: the endpoint answers e, the client renders the answer.
Handle(e, clickedIn) ==
  /\ event' = e
  /\ response' = appPost(e, tzOffsetMin)
  /\ ui' = Render(ui, appPost(e, tzOffsetMin))
  /\ from' = clickedIn
  /\ UNCHANGED <<tzOffsetMin, poolVars, fetchVars, aiVars, pageVars>>

ReceiveMessage == \E e \in MessageEvents : Handle(e, NoUi)

ReceiveCardClicked == \E e \in CardClickedEvents : Handle(e, NoUi)

ReceiveOther == \E e \in OtherEvents : Handle(e, NoUi)

ClickButton ==
  /\ HasButton(ui)
  /\ \E fi \in (IF HasInputs(ui) THEN FormInputMaps ELSE {EmptyObject}) :
       Handle(ClickEvent(ui, fi), ui)

Next == ReceiveMessage \/ ReceiveCardClicked \/ ReceiveOther \/ ClickButton

Spec == Init /\ [][Next]_vars

-----------------------------------------------------------------------------
(* What the properties below speak of *)

Answered == response.outcome = "json"

\* { actionResponse: { type: "DIALOG", dialogAction: { dialog } } }
IsOpenDialog(body) ==
  /\ DOMAIN body = {"actionResponse"}
  /\ body.actionResponse.type = "DIALOG"
  /\ DOMAIN body.actionResponse.dialogAction = {"dialog"}

\* { actionResponse: { type: "DIALOG", dialogAction: { actionStatus } } }
IsActionStatus(body) ==
  /\ DOMAIN body = {"actionResponse"}
  /\ body.actionResponse.type = "DIALOG"
  /\ DOMAIN body.actionResponse.dialogAction = {"actionStatus"}
  /\ DOMAIN body.actionResponse.dialogAction.actionStatus
       = {"statusCode", "userFacingMessage"}

HasStatus(body, code) ==
  /\ IsActionStatus(body)
  /\ body.actionResponse.dialogAction.actionStatus.statusCode = code

\* { actionResponse: { type }, privateMessageViewer, text?, cardsV2? }
IsMessageOfType(body, type) ==
  /\ Has(body, "actionResponse")
  /\ DOMAIN body.actionResponse = {"type"}
  /\ body.actionResponse.type = type
  /\ Has(body, "privateMessageViewer")
  /\ DOMAIN body \subseteq {"actionResponse", "privateMessageViewer", "text", "cardsV2"}

\* { privateMessageViewer, text, cardsV2 }, with or without the card
IsPrivateMessage(body) ==
  /\ {"privateMessageViewer", "text"} \subseteq DOMAIN body
  /\ DOMAIN body \subseteq {"privateMessageViewer", "text", "cardsV2"}

\* { text, accessoryWidgets }
IsTextWithAccessory(body) == DOMAIN body = {"text", "accessoryWidgets"}

DocumentedShape(body) ==
  \/ IsOpenDialog(body)
  \/ IsActionStatus(body)
  \/ IsMessageOfType(body, "UPDATE_MESSAGE")
  \/ IsMessageOfType(body, "NEW_MESSAGE")
  \/ IsPrivateMessage(body)
  \/ IsTextWithAccessory(body)

\* The contact form: the three fields, then "Review and submit".
IsContactForm(widgets) ==
  /\ Len(widgets) = 4
  /\ Has(widgets[1], "textInput") /\ widgets[1].textInput.name = "contactName"
  /\ Has(widgets[2], "dateTimePicker")
  /\ widgets[2].dateTimePicker.name = "contactBirthdate"
  /\ Has(widgets[3], "selectionInput")
  /\ widgets[3].selectionInput.name = "contactType"
  /\ Has(widgets[4], "buttonList")
  /\ Len(widgets[4].buttonList.buttons) = 1
  /\ widgets[4].buttonList.buttons[1].text = "Review and submit"
  /\ widgets[4].buttonList.buttons[1].onClick.action.function = "openConfirmation"

IsMessageEvent == event.type = "MESSAGE" /\ Has(event, "message")

SlashCommandIs(ids) ==
  /\ IsMessageEvent
  /\ Has(event.message, "slashCommand")
  /\ event.message.slashCommand.commandId \in ids

SlashCommandOther ==
  /\ IsMessageEvent
  /\ Has(event.message, "slashCommand")
  /\ event.message.slashCommand.commandId \notin {"1", "2"}

IsPlainMessage == IsMessageEvent /\ ~Has(event.message, "slashCommand")

Invokes(f) ==
  /\ event.type = "CARD_CLICKED"
  /\ Has(event, "common")
  /\ event.common.invokedFunction = f

WidgetNames == {"contactName", "contactBirthdate", "contactType"}

\* A Confirmation-step event and the widgets its formInputs has entries for.
IsConfirmationEvent == Invokes("openConfirmation") /\ Has(event.common, "formInputs")

EntriesPresent == IsConfirmationEvent /\ WidgetNames \subseteq DOMAIN event.common.formInputs

\* A Submission event and its contactName parameter.
IsSubmissionEvent == Invokes("submitForm") /\ Has(event.common, "parameters")

NameParameter ==
  IF Has(event.common.parameters, "contactName")
    THEN event.common.parameters.contactName ELSE Undefined

NameIsEmpty == NameParameter \in {Undefined, Str("")}

NameIsGiven == NameParameter.t = "string" /\ NameParameter.s # ""

InDialogSubmit == event.dialogEventType = "SUBMIT_DIALOG"

\* The summary section of a Confirmation answer, whatever its envelope.
SummaryOf(body) ==
  IF Has(body, "cardsV2") THEN body.cardsV2[1].card.sections[1]
  ELSE Envelope(body).dialogAction.dialog.body.sections[1]

\* The line of a summary: 2 the name, 3 the birthday, 4 the type.
SummaryLine(section, i) == section.widgets[i].textParagraph.text

SummaryContains(section, s) ==
  \E i \in 1..4 : Contains(SummaryLine(section, i), s)

\* The parameters of the summary's Submit control.
SubmitParameters(section) ==
  section.widgets[5].buttonList.buttons[1].onClick.action.parameters

\* A client screen that shows a summary with its Submit control.
IsSummary(shown) ==
  HasButton(shown) /\ ButtonAction(shown).function = "submitForm"

\* The name a summary screen shows after its label.
NameShown(shown) ==
  LET line == SummaryLine(shown, 2)
  IN  IF Len(line) = 2 THEN line[2] ELSE ""

\* The value an entry of formInputs holds, "" when it holds none.
EnteredValue(item) ==
  IF Has(item, "stringInputs") /\ Len(item.stringInputs.value) > 0
    THEN Str(item.stringInputs.value[1])
  ELSE IF Has(item, "dateInput") /\ item.dateInput.msSinceEpoch # Null
    THEN item.dateInput.msSinceEpoch
  ELSE Str("")

-----------------------------------------------------------------------------
(* C1: every inbound event that the endpoint handles gets exactly one       *)
(* DialogResponse variant: a body of one of the documented shapes, never an *)
(* empty body, no body, or a body keyed differently.                        *)
C1_ExactlyOneVariant ==
  response.outcome \in {"json", "empty"}
    => Answered /\ DocumentedShape(response.body)

(* C2, as claimed: every Initial-step event (a MESSAGE with a slash         *)
(* command, a plain MESSAGE, a click that invokes openInitialDialog) is     *)
(* answered with an OpenDialog holding the contact form.                    *)
C2_InitialAlwaysOpensDialog ==
  (IsMessageEvent \/ Invokes("openInitialDialog")) =>
    /\ Answered
    /\ IsOpenDialog(response.body)
    /\ IsContactForm(
         response.body.actionResponse.dialogAction.dialog.body.sections[1].widgets)

(* C2, amended: slash command "2" and a click that invokes               *)
(* openInitialDialog are answered with an OpenDialog holding the contact    *)
(* form; a MESSAGE with no slash command, or with a command other than "1"  *)
(* and "2", is answered with a private text-and-card message whose card     *)
(* holds the same contact form; slash command "1" is answered with a text   *)
(* and an "Add Contact" button that invokes openInitialDialog.              *)
C2_InitialStep ==
  /\ (SlashCommandIs({"2"}) \/ Invokes("openInitialDialog")) =>
       /\ Answered
       /\ IsOpenDialog(response.body)
       /\ IsContactForm(
            response.body.actionResponse.dialogAction.dialog.body.sections[1].widgets)
  /\ (IsPlainMessage \/ SlashCommandOther) =>
       /\ Answered
       /\ DOMAIN response.body = {"privateMessageViewer", "text", "cardsV2"}
       /\ response.body.privateMessageViewer = event.user
       /\ Len(response.body.cardsV2) = 1
       /\ IsContactForm(response.body.cardsV2[1].card.sections[1].widgets)
  /\ SlashCommandIs({"1"}) =>
       /\ Answered
       /\ IsTextWithAccessory(response.body)
       /\ LET buttons == response.body.accessoryWidgets[1].buttonList.buttons
          IN  /\ Len(buttons) = 1
              /\ buttons[1].text = "Add Contact"
              /\ buttons[1].onClick.action.function = "openInitialDialog"
              /\ buttons[1].onClick.action.interaction = "OPEN_DIALOG"

C2_Witness ==
  /\ SlashCommandIs({"2"})
  /\ Answered
  /\ IsOpenDialog(response.body)
  /\ ui.shown = "dialog"

(* C3: a Confirmation-step event whose three form entries are present is    *)
(* answered with an OpenDialog (actionResponse of type DIALOG carrying the  *)
(* dialog) when isDialogEvent is true and with an UpdateMessage             *)
(* (actionResponse of type UPDATE_MESSAGE) otherwise.                       *)
C3_ConfirmationEnvelope ==
  EntriesPresent =>
    /\ Answered
    /\ event.isDialogEvent => IsOpenDialog(response.body)
    /\ ~event.isDialogEvent => IsMessageOfType(response.body, "UPDATE_MESSAGE")

(* C4: a Submission event whose contactName parameter is empty or absent   *)
(* and whose dialogEventType is SUBMIT_DIALOG is answered with the action   *)
(* status INVALID_ARGUMENT and the message "Don't forget to name your new   *)
(* contact!"; nothing new is rendered: the client shows what it showed.     *)
C4_EmptyNameInDialog ==
  (IsSubmissionEvent /\ NameIsEmpty /\ InDialogSubmit) =>
    /\ Answered
    /\ HasStatus(response.body, "INVALID_ARGUMENT")
    /\ response.body.actionResponse.dialogAction.actionStatus.userFacingMessage
         = <<"Don't forget to name your new contact!">>
    /\ from # NoUi => ui = from

C4_Witness ==
  /\ IsSubmissionEvent /\ NameIsEmpty /\ InDialogSubmit
  /\ IsSummary(from) /\ from.shown = "dialog"
  /\ ui = from
  /\ Answered /\ HasStatus(response.body, "INVALID_ARGUMENT")

(* C5: a Submission event whose contactName parameter is non-empty and      *)
(* whose dialogEventType is not SUBMIT_DIALOG is answered with a NEW_MESSAGE *)
(* whose text holds the checkmark and the name, and is not the error text.  *)
C5_SuccessMessage ==
  (IsSubmissionEvent /\ NameIsGiven /\ ~InDialogSubmit) =>
    /\ Answered
    /\ IsMessageOfType(response.body, "NEW_MESSAGE")
    /\ Has(response.body, "text")
    /\ Contains(response.body.text, NameParameter.s)
    /\ Contains(response.body.text, CheckMark)
    /\ response.body.text # <<errorMessage>>
    /\ ~Contains(response.body.text, errorMessage)

C5_Witness ==
  /\ IsSubmissionEvent /\ NameIsGiven /\ ~InDialogSubmit
  /\ IsSummary(from) /\ from.shown = "card"
  /\ Answered
  /\ response.body.text = <<CheckMark, "Ada", " has been added to your contacts.">>

(* C6: a Submission event whose contactName parameter is non-empty and      *)
(* whose dialogEventType is SUBMIT_DIALOG is answered with the action       *)
(* status OK, which closes the dialog; no NEW_MESSAGE is posted.            *)
C6_OkStatus ==
  (IsSubmissionEvent /\ NameIsGiven /\ InDialogSubmit) =>
    /\ Answered
    /\ HasStatus(response.body, "OK")
    /\ ~IsMessageOfType(response.body, "NEW_MESSAGE")
    /\ ~Has(response.body, "text")
    /\ ui = NoUi

C6_Witness ==
  /\ IsSubmissionEvent /\ NameIsGiven /\ InDialogSubmit
  /\ IsSummary(from) /\ from.shown = "dialog"
  /\ Answered /\ HasStatus(response.body, "OK")
  /\ ui = NoUi

(* C7: a Submission event whose contactName parameter is empty or absent    *)
(* and whose dialogEventType is not SUBMIT_DIALOG is answered with a plain  *)
(* message whose text is exactly the error text of the dialog's validation  *)
(* error; no success confirmation is produced.                              *)
C7_EmptyNameOutsideDialog ==
  (IsSubmissionEvent /\ NameIsEmpty /\ ~InDialogSubmit) =>
    /\ Answered
    /\ DOMAIN response.body = {"privateMessageViewer", "text"}
    /\ response.body.privateMessageViewer = event.user
    /\ response.body.text = <<"Don't forget to name your new contact!">>
    /\ response.body.text = InvalidArgumentStatus.actionResponse.dialogAction
                              .actionStatus.userFacingMessage
    /\ ~Contains(response.body.text, CheckMark)

C7_Witness ==
  /\ IsSubmissionEvent /\ NameIsEmpty /\ ~InDialogSubmit
  /\ IsSummary(from) /\ from.shown = "card"
  /\ Answered
  /\ response.body.text = <<errorMessage>>

(* C8: the Submit control that Confirmation returns carries contactName,    *)
(* contactBirthdate and contactType, in this order, with the values entered *)
(* in that Confirmation event's form; and a Submission sent by clicking     *)
(* that control is decided by the name the summary shows: the error when it *)
(* is empty, an acknowledgment of that name otherwise.                      *)
C8_RoundTrip ==
  /\ (EntriesPresent /\ Answered) =>
       LET params == SubmitParameters(SummaryOf(response.body))
           inputs == event.common.formInputs
       IN  params = << [key |-> "contactName",
                        value |-> EnteredValue(inputs.contactName)],
                       [key |-> "contactBirthdate",
                        value |-> EnteredValue(inputs.contactBirthdate)],
                       [key |-> "contactType",
                        value |-> EnteredValue(inputs.contactType)] >>
  /\ IsSummary(from) =>
       /\ IsSubmissionEvent
       /\ NameParameter = Str(NameShown(from))
       /\ Answered
       /\ LET name == NameShown(from)
              body == response.body
          IN  IF name = ""
                THEN IF from.shown = "dialog"
                       THEN HasStatus(body, "INVALID_ARGUMENT")
                       ELSE body.text = <<errorMessage>>
                ELSE IF from.shown = "dialog"
                       THEN /\ HasStatus(body, "OK")
                            /\ Contains(body.actionResponse.dialogAction
                                          .actionStatus.userFacingMessage, name)
                       ELSE /\ IsMessageOfType(body, "NEW_MESSAGE")
                            /\ Contains(body.text, name)

C8_Witness ==
  /\ IsSummary(from)
  /\ NameShown(from) = "Ada"
  /\ IsSubmissionEvent
  /\ event.common.parameters.contactBirthdate = Num(7305, 0)
  /\ Answered
  /\ HasStatus(response.body, "OK")

\* The Confirmation event with name "Ada", birthdate 631152000000 and type
\* "Work".
IsAdaEvent ==
  /\ EntriesPresent
  /\ EnteredValue(event.common.formInputs.contactName) = Str("Ada")
  /\ EnteredValue(event.common.formInputs.contactBirthdate) = Num(7305, 0)
  /\ EnteredValue(event.common.formInputs.contactType) = Str("Work")

(* C9, as claimed: the summary of the Confirmation event with name "Ada",   *)
(* birthdate 631152000000 and type "Work" holds "Ada", "Work" and           *)
(* "January 1, 1990".                                                       *)
C9_AdaSummary ==
  IsAdaEvent =>
    /\ Answered
    /\ SummaryContains(SummaryOf(response.body), "Ada")
    /\ SummaryContains(SummaryOf(response.body), "Work")
    /\ SummaryContains(SummaryOf(response.body), "January 1, 1990")

(* C9, amended: that summary holds "Ada", "Work" and the date of          *)
(* 631152000000 in the server's local time zone: "January 1, 1990" when the *)
(* zone is UTC or east of it, "December 31, 1989" when it is west of it.    *)
(* In general the birthday line is the en-US long-form calendar date of the *)
(* timestamp in the server's local time zone: 2000-02-29T23:59:59.999Z is   *)
(* "March 1, 2000" east of UTC and "February 29, 2000" otherwise.           *)
C9_AdaSummaryLocalTime ==
  /\ IsAdaEvent =>
       /\ Answered
       /\ SummaryContains(SummaryOf(response.body), "Ada")
       /\ SummaryContains(SummaryOf(response.body), "Work")
       /\ SummaryLine(SummaryOf(response.body), 3)
            = <<"<b>Birthday:</b> ",
                IF tzOffsetMin >= 0 THEN "January 1, 1990" ELSE "December 31, 1989">>
  /\ (/\ EntriesPresent
      /\ EnteredValue(event.common.formInputs.contactBirthdate)
           = Num(11016, MsPerDay - 1)) =>
       /\ Answered
       /\ SummaryLine(SummaryOf(response.body), 3)
            = <<"<b>Birthday:</b> ",
                IF tzOffsetMin > 0 THEN "March 1, 2000" ELSE "February 29, 2000">>

C9_Witness ==
  /\ IsAdaEvent
  /\ tzOffsetMin < 0
  /\ Answered
  /\ SummaryContains(SummaryOf(response.body), "December 31, 1989")

(* C10: at the Confirmation step a field that has no entry in the event's   *)
(* form-input map is defaulted to the empty string: the summary is still    *)
(* returned, and it shows and carries forward the empty string for that     *)
(* field.                                                                   *)
C10_MissingDefaultsToEmpty ==
  IsConfirmationEvent =>
    /\ Answered
    /\ LET section == SummaryOf(response.body)
           params == SubmitParameters(section)
           inputs == event.common.formInputs
       IN  /\ ~Has(inputs, "contactName") =>
                /\ params[1].value = Str("")
                /\ SummaryLine(section, 2) = <<"<b>Name:</b> ">>
           /\ ~Has(inputs, "contactBirthdate") =>
                /\ params[2].value = Str("")
                /\ SummaryLine(section, 3) = <<"<b>Birthday:</b> ">>
           /\ ~Has(inputs, "contactType") =>
                /\ params[3].value = Str("")
                /\ SummaryLine(section, 4) = <<"<b>Type:</b> ">>

-----------------------------------------------------------------------------
(* The endpoint under concurrent requests.  Express parses the bodies of    *)
(* the requests as they arrive; the handler of app.post has no await in     *)
(* it, so one run of it is one step; the answers are delivered in any       *)
(* order.  The one module-level object the handlers use is the array        *)
(* CONTACT_FORM_WIDGETS.                                                    *)

\* Most requests in flight at a time.
MaxRequests == 2

\* Faulty variant: the items are added to the receiver itself, as push does.
MutArrayConcatInPlace(array, items) ==
  [returned |-> array \o items, receiver |-> array \o items]

\* Array.prototype.concat: the result is a new array, the receiver is left
\* as it was.
ArrayConcat(array, items) ==
  [returned |-> array \o items, receiver |-> array]

\* The runs of the handler that evaluate CONTACT_FORM_WIDGETS.concat(...):
\* openInitialDialog's, and onMessage's for a message without a command.
OpensDialogForm(e) ==
  \/ /\ e.type = "MESSAGE"
     /\ Has(e, "message")
     /\ Has(e.message, "slashCommand")
     /\ e.message.slashCommand.commandId = "2"
  \/ /\ e.type = "CARD_CLICKED"
     /\ Has(e, "common")
     /\ e.common.invokedFunction = "openInitialDialog"

SendsCardForm(e) ==
  /\ e.type = "MESSAGE"
  /\ Has(e, "message")
  /\ ~(/\ Has(e.message, "slashCommand")
       /\ e.message.slashCommand.commandId \in {"1", "2"})

\* One run of the handler while the module-level array holds `array`: what
\* the endpoint does with e, and the array after the run.
appPostWith(e, offsetMin, array) ==
  LET alone == appPost(e, offsetMin)
      form == ArrayConcat(array, <<ReviewAndSubmitButton>>)
  IN  IF OpensDialogForm(e)
        THEN [response |->
                [alone EXCEPT !.body.actionResponse.dialogAction.dialog
                                .body.sections[1].widgets = form.returned],
              array |-> form.receiver]
      ELSE IF SendsCardForm(e)
        THEN [response |->
                [alone EXCEPT !.body.cardsV2[1].card.sections[1].widgets =
                                form.returned],
              array |-> form.receiver]
      ELSE [response |-> alone, array |-> array]

\* The events sent concurrently: both forms, a summary with a name, with no
\* name and with no entries, and a submission.
PoolEvents ==
  {m \in MessageEvents :
     /\ Has(m, "message")
     /\ Has(m.message, "slashCommand") => m.message.slashCommand.commandId = "2"}
  \cup {CardClicked([invokedFunction |-> "openConfirmation", formInputs |-> fi],
                    TRUE, "SUBMIT_DIALOG") :
          fi \in {FullItems,
                  [FullItems EXCEPT !.contactName = StringItem(<<>>)],
                  EmptyObject}}
  \cup {CardClicked([invokedFunction |-> "submitForm",
                     parameters |-> [contactName |-> Str("Ada"),
                                     contactBirthdate |-> Num(7305, 0),
                                     contactType |-> Str("Work")]],
                    TRUE, "SUBMIT_DIALOG")}

\* A request arrives and its body is parsed.
ReceiveRequest(e) ==
  /\ Len(inflight) < MaxRequests
  /\ inflight' = Append(inflight, [event |-> e, state |-> "received",
                                    response |-> [outcome |-> "none"]])
  /\ UNCHANGED <<contactFormWidgets, webhookVars, fetchVars, aiVars, pageVars>>

\* The handler runs for one of the requests received.
RunHandler(i) ==
  /\ inflight[i].state = "received"
  /\ LET run == appPostWith(inflight[i].event, tzOffsetMin, contactFormWidgets)
     IN  /\ inflight' = [inflight EXCEPT ![i].state = "handled",
                                         ![i].response = run.response]
         /\ contactFormWidgets' = run.array
  /\ UNCHANGED <<webhookVars, fetchVars, aiVars, pageVars>>

\* The answer of a handled request reaches the client (none does when the
\* handler threw), and the request is over.
DeliverResponse(i) ==
  /\ inflight[i].state = "handled"
  /\ inflight' = [j \in 1..(Len(inflight) - 1) |->
                    IF j < i THEN inflight[j] ELSE inflight[j + 1]]
  /\ UNCHANGED <<contactFormWidgets, webhookVars, fetchVars, aiVars, pageVars>>

Receive == \E e \in PoolEvents : ReceiveRequest(e)

Run == \E i \in DOMAIN inflight : RunHandler(i)

Deliver == \E i \in DOMAIN inflight : DeliverResponse(i)

NextPool == Receive \/ Run \/ Deliver

SpecPool == Init /\ [][NextPool]_vars

Handled(i) == inflight[i].state = "handled"

InvokesOpenConfirmation(e) ==
  /\ e.type = "CARD_CLICKED"
  /\ Has(e, "common")
  /\ e.common.invokedFunction = "openConfirmation"

\* C11: however the runs of the handler for concurrent requests interleave,
\* each request's response is the one its event gets when it is handled
\* alone, the module-level array is never changed, and two requests with
\* the same Confirmation event get identical responses.
C11_HandledAsAlone ==
  /\ contactFormWidgets = CONTACT_FORM_WIDGETS
  /\ \A i \in DOMAIN inflight :
       Handled(i) =>
         inflight[i].response = appPost(inflight[i].event, tzOffsetMin)
  /\ \A i, j \in DOMAIN inflight :
       /\ Handled(i)
       /\ Handled(j)
       /\ InvokesOpenConfirmation(inflight[i].event)
       /\ inflight[i].event = inflight[j].event
       => inflight[i].response = inflight[j].response

\* Two requests in flight at once have been handled: a Confirmation event
\* answered with a body, after a request that was sent the form.
C11_Witness ==
  /\ Len(inflight) = 2
  /\ Handled(1)
  /\ Handled(2)
  /\ SendsCardForm(inflight[1].event)
  /\ InvokesOpenConfirmation(inflight[2].event)
  /\ inflight[2].response.outcome = "json"

-----------------------------------------------------------------------------
(* fetchFormValue called on its own, with one form entry of every kind.     *)

FetchStrings == {"", "Ada", "Work"}

\* The stringInputs.value lists of up to MaxValues strings.
FetchValueLists == UNION {[1..n -> FetchStrings] : n \in 0..MaxValues}

\* The msSinceEpoch of a dateInput: a time, the epoch itself, null, nothing.
FetchDates == Timestamps \cup {Num(0, 0), Null, Undefined}

\* The entries: string inputs, a date input, both, neither.
FetchItems ==
  {StringItem(v) : v \in FetchValueLists}
  \cup {DateItem(ms) : ms \in FetchDates}
  \cup {[stringInputs |-> [value |-> v], dateInput |-> [msSinceEpoch |-> ms]] :
          v \in {<<>>, <<"Ada">>}, ms \in {Num(7305, 0), Null}}
  \cup {TimeItem, EmptyObject}

\* The events: formInputs holds one entry, under the name of a widget.
FetchEvents ==
  {CardClicked([invokedFunction |-> "openConfirmation",
                formInputs |-> [k \in {w} |-> item]], FALSE, "NONE") :
     w \in DOMAIN FullItems, item \in FetchItems}

\* fetchFormValue(e, widgetName) is called.
CallFetchFormValue(e, widgetName) ==
  /\ fetchCall' = [event |-> e, widgetName |-> widgetName]
  /\ fetchResult' = fetchFormValue(e, widgetName)
  /\ UNCHANGED <<webhookVars, poolVars, aiVars, pageVars>>

Fetch ==
  \E e \in FetchEvents, widgetName \in DOMAIN FullItems :
    CallFetchFormValue(e, widgetName)

SpecFetch == Init /\ [][Fetch]_vars

\* The entry the last call read, when the event holds one under the name.
FetchedEntryPresent ==
  /\ fetchCall # NoFetch
  /\ Has(fetchCall.event.common.formInputs, fetchCall.widgetName)

FetchedEntry == fetchCall.event.common.formInputs[fetchCall.widgetName]

\* C12: for an entry holding string inputs fetchFormValue returns the first
\* string of the list, or null when the list is empty; for an entry holding
\* a date input (and no string inputs) it returns msSinceEpoch as it is, or
\* null when that is null or missing; for an entry holding neither it
\* returns null.
C12_FieldExtraction ==
  FetchedEntryPresent =>
    /\ Has(FetchedEntry, "stringInputs") =>
         fetchResult =
           IF FetchedEntry.stringInputs.value = <<>>
             THEN Return(Null)
             ELSE Return(Str(Head(FetchedEntry.stringInputs.value)))
    /\ ~Has(FetchedEntry, "stringInputs") /\ Has(FetchedEntry, "dateInput") =>
         fetchResult =
           IF FetchedEntry.dateInput.msSinceEpoch \in {Null, Undefined}
             THEN Return(Null)
             ELSE Return(FetchedEntry.dateInput.msSinceEpoch)
    /\ ~Has(FetchedEntry, "stringInputs") /\ ~Has(FetchedEntry, "dateInput") =>
         fetchResult = Return(Null)

\* A list of two different strings was read: the first one came back.
C12_Witness ==
  /\ FetchedEntryPresent
  /\ Has(FetchedEntry, "stringInputs")
  /\ FetchedEntry.stringInputs.value = <<"Ada", "Work">>
  /\ fetchResult = Return(Str("Ada"))

-----------------------------------------------------------------------------
(* The AI service: the operations of AIPService and the callPredict they    *)
(* share, in its two variants: the one that calls OpenAI and records a      *)
(* Langfuse trace, and the one that calls Groq.  One invocation runs from   *)
(* its call to its return or throw; every awaited call of a client library  *)
(* either resolves or rejects.  A chat-completion request is one call of    *)
(* chat.completions.create; what the client library does inside that call   *)
(* is not part of the service.                                              *)

Services == {"openai", "groq"}

\* The operations each variant of the service exports.
Operations(service) ==
  IF service = "openai"
    THEN {"analyzeMessageType", "handleNonQuestion", "containsQuestion",
          "answerQuestion"}
    ELSE {"containsQuestion", "answerQuestion"}

\* The own keys of handleNonQuestion's object "prompts".
PromptKeys == {"greeting", "gratitude", "knowledge", "emotion", "command"}

\* Keys every object literal inherits from Object.prototype.
ObjectPrototypeKeys == {"constructor", "toString", "valueOf", "hasOwnProperty"}

\* The categories handleNonQuestion is called with: the seven the prompt of
\* analyzeMessageType names, and other strings a model may answer with.
MessageTypes ==
  PromptKeys \cup {"general", "question", "other", "constructor", "toString"}

\* prompts[messageType]: the prompt under an own key, the function under an
\* inherited one, undefined otherwise.
PromptsLookup(messageType) ==
  IF messageType \in PromptKeys
    THEN [k |-> "prompt", for |-> messageType]
  ELSE IF messageType \in ObjectPrototypeKeys
    THEN [k |-> "function", name |-> messageType]
  ELSE Undefined

\* handleNonQuestion up to its return: null, or the call of callPredict.
handleNonQuestion(messageType) ==
  IF messageType = "general" THEN [k |-> "return", v |-> Null]
  ELSE IF PromptsLookup(messageType) # Undefined
    THEN [k |-> "callPredict", prompt |-> PromptsLookup(messageType)]
  ELSE [k |-> "return", v |-> Null]

\* The texts a completion holds, as sequences of characters.
Contents ==
  {<<"Y", "e", "s", ".">>, <<" ", "G", "r", "e", "e", "t", "i", "n", "g", " ">>}

\* String.prototype.toLowerCase, for the letters of Contents.
toLowerCase(s) ==
  [i \in DOMAIN s |->
     CASE s[i] = "Y" -> "y" [] s[i] = "G" -> "g" [] OTHER -> s[i]]

RECURSIVE TrimStart(_)
TrimStart(s) == IF s # <<>> /\ Head(s) = " " THEN TrimStart(Tail(s)) ELSE s

RECURSIVE TrimEnd(_)
TrimEnd(s) ==
  IF s # <<>> /\ s[Len(s)] = " " THEN TrimEnd(SubSeq(s, 1, Len(s) - 1)) ELSE s

\* String.prototype.trim
trim(s) == TrimEnd(TrimStart(s))

\* String.prototype.includes
includes(s, part) ==
  \E i \in 1..(Len(s) - Len(part) + 1) : SubSeq(s, i, i + Len(part) - 1) = part

\* What each operation makes of the text callPredict returned.
ResultOf(operation, content) ==
  CASE operation = "analyzeMessageType" -> trim(toLowerCase(content))
    [] operation = "containsQuestion" ->
         includes(toLowerCase(content), <<"y", "e", "s">>)
    [] OTHER -> content

\* The awaited calls of callPredict's try block, in order; the last one
\* resolved, callPredict returns.
CallPredictSteps(service) ==
  IF service = "openai"
    THEN <<"langfuse.trace", "trace.span", "span.generation",
           "chat.completions.create", "generation.end", "span.end",
           "trace.update", "langfuse.flush">>
    ELSE <<"chat.completions.create">>

\* The awaited calls of the try block inside callPredict's catch block.
ErrorTracingSteps ==
  <<"error trace.span", "errorSpan.end", "error trace.update",
    "error langfuse.flush">>

\* The step after aiPc in steps, or `last` after the last one.
StepAfter(steps, pc, last) ==
  LET i == CHOOSE j \in DOMAIN steps : steps[j] = pc
  IN  IF i < Len(steps) THEN steps[i + 1] ELSE last

InSteps(steps, pc) == \E j \in DOMAIN steps : steps[j] = pc

\* The error a rejected call raises: errors are told apart by their origin.
ErrorOf(call) == [k |-> "error", from |-> call]

Returned(v) == [k |-> "return", v |-> v]
Thrown(error) == [k |-> "throw", v |-> error]

\* Faulty variant: the error of the failed error trace is the one kept.
MutOnTraceErrorReplaces(log, error, traceError) ==
  [log |-> Append(log, [message |-> "Error while tracing error:",
                        error |-> traceError]),
   error |-> traceError]

\* callPredict's inner catch: traceError is logged, `error` stays the one
\* that is thrown after it.
OnTraceError(log, error, traceError) ==
  [log |-> Append(log, [message |-> "Error while tracing error:",
                        error |-> traceError]),
   error |-> error]

\* An operation is called: the invocation starts with nothing done.
Begin(call, pc, outcome) ==
  /\ aiPc \in {"idle", "done"}
  /\ aiCall' = call
  /\ aiPc' = pc
  /\ aiTrace' = FALSE
  /\ aiRequests' = <<>>
  /\ aiCaught' = NoError
  /\ aiLog' = <<>>
  /\ aiOutcome' = outcome
  /\ UNCHANGED <<webhookVars, poolVars, fetchVars, pageVars>>

\* analyzeMessageType, containsQuestion or answerQuestion is called: each
\* builds its prompt and calls callPredict.
InvokeWithPrompt(service, operation) ==
  /\ operation # "handleNonQuestion"
  /\ Begin([service |-> service, operation |-> operation],
           CallPredictSteps(service)[1], NoOutcome)

\* handleNonQuestion(messageType, message) is called.
InvokeHandleNonQuestion(messageType) ==
  LET call == [service |-> "openai", operation |-> "handleNonQuestion",
               messageType |-> messageType]
  IN  IF handleNonQuestion(messageType).k = "return"
        THEN Begin(call, "done", Returned(handleNonQuestion(messageType).v))
        ELSE Begin(call, CallPredictSteps("openai")[1], NoOutcome)

\* The awaited call at aiPc resolves; the completion comes with a text.
\* After the last call callPredict returns the text and the operation
\* returns what it makes of it.
AwaitResolves(content) ==
  /\ aiCall # NoCall
  /\ InSteps(CallPredictSteps(aiCall.service), aiPc)
  /\ aiPc' = StepAfter(CallPredictSteps(aiCall.service), aiPc, "done")
  /\ aiTrace' = (aiTrace \/ aiPc = "langfuse.trace")
  /\ aiRequests' =
       IF aiPc = "chat.completions.create"
         THEN Append(aiRequests, [k |-> "resolved", content |-> content])
         ELSE aiRequests
  /\ aiOutcome' =
       IF aiPc' = "done"
         THEN Returned(ResultOf(aiCall.operation,
                                aiRequests'[Len(aiRequests')].content))
         ELSE aiOutcome
  /\ UNCHANGED <<aiCall, aiCaught, aiLog>>
  /\ UNCHANGED <<webhookVars, poolVars, fetchVars, pageVars>>

\* The awaited call at aiPc rejects.  With OpenAI, callPredict's catch block
\* logs the error and goes on to record it in the trace when there is one;
\* with Groq nothing catches it, and the operation throws it.
AwaitRejects ==
  /\ aiCall # NoCall
  /\ InSteps(CallPredictSteps(aiCall.service), aiPc)
  /\ aiRequests' =
       IF aiPc = "chat.completions.create"
         THEN Append(aiRequests, [k |-> "rejected", error |-> ErrorOf(aiPc)])
         ELSE aiRequests
  /\ IF aiCall.service = "openai"
       THEN /\ aiCaught' = ErrorOf(aiPc)
            /\ aiLog' = Append(aiLog, [message |-> "Error in callPredict:",
                                       error |-> ErrorOf(aiPc)])
            /\ aiPc' = IF aiTrace THEN ErrorTracingSteps[1] ELSE "throw"
            /\ UNCHANGED aiOutcome
       ELSE /\ aiOutcome' = Thrown(ErrorOf(aiPc))
            /\ aiPc' = "done"
            /\ UNCHANGED <<aiCaught, aiLog>>
  /\ UNCHANGED <<aiCall, aiTrace>>
  /\ UNCHANGED <<webhookVars, poolVars, fetchVars, pageVars>>

\* A call that records the error in the trace resolves.
ErrorTracingResolves ==
  /\ InSteps(ErrorTracingSteps, aiPc)
  /\ aiPc' = StepAfter(ErrorTracingSteps, aiPc, "throw")
  /\ UNCHANGED <<aiCall, aiTrace, aiRequests, aiCaught, aiLog, aiOutcome>>
  /\ UNCHANGED <<webhookVars, poolVars, fetchVars, pageVars>>

\* A call that records the error in the trace rejects.
ErrorTracingRejects ==
  /\ InSteps(ErrorTracingSteps, aiPc)
  /\ aiLog' = OnTraceError(aiLog, aiCaught, ErrorOf(aiPc)).log
  /\ aiCaught' = OnTraceError(aiLog, aiCaught, ErrorOf(aiPc)).error
  /\ aiPc' = "throw"
  /\ UNCHANGED <<aiCall, aiTrace, aiRequests, aiOutcome>>
  /\ UNCHANGED <<webhookVars, poolVars, fetchVars, pageVars>>

\* "throw error", the last statement of the catch block.
Rethrow ==
  /\ aiPc = "throw"
  /\ aiOutcome' = Thrown(aiCaught)
  /\ aiPc' = "done"
  /\ UNCHANGED <<aiCall, aiTrace, aiRequests, aiCaught, aiLog>>
  /\ UNCHANGED <<webhookVars, poolVars, fetchVars, pageVars>>

Invoke ==
  \E service \in Services :
    \E operation \in Operations(service) : InvokeWithPrompt(service, operation)

InvokeNonQuestion ==
  \E messageType \in MessageTypes : InvokeHandleNonQuestion(messageType)

Resolve == \E content \in Contents : AwaitResolves(content)

NextAI ==
  \/ Invoke
  \/ InvokeNonQuestion
  \/ Resolve
  \/ AwaitRejects
  \/ ErrorTracingResolves
  \/ ErrorTracingRejects
  \/ Rethrow

SpecAI == Init /\ [][NextAI]_vars

-----------------------------------------------------------------------------
(* Properties of the AI service *)

InvocationDone == aiCall # NoCall /\ aiPc = "done"

\* The invocation's chat-completion call was made and rejected.
CompletionFailed ==
  /\ aiRequests # <<>>
  /\ aiRequests[Len(aiRequests)].k = "rejected"

CompletionError == aiRequests[Len(aiRequests)].error

\* console.error was called with the error.
Logged(error) == \E i \in DOMAIN aiLog : aiLog[i].error = error

\* The failed call is not followed by a returned value or a second request,
\* and once the invocation is over its caller has been thrown the error of
\* the failed call.
PropagatedUnmodified ==
  CompletionFailed =>
    /\ Len(aiRequests) = 1
    /\ aiOutcome.k # "return"
    /\ InvocationDone => aiOutcome = Thrown(CompletionError)

\* C13 as claimed: when the chat-completion call fails, callPredict throws
\* the same error to its caller after logging it, returns no fallback value,
\* makes no second request, and a failure while recording the error in the
\* trace does not replace or suppress the error.
C13_PropagatedAfterLogged ==
  /\ PropagatedUnmodified
  /\ CompletionFailed /\ aiOutcome.k = "throw" => Logged(CompletionError)

\* C13 amended: the error is propagated unmodified, without a fallback value
\* or a second request, whatever happens while the error is recorded in the
\* trace; the callPredict that calls OpenAI logs it before it throws it, the
\* callPredict that calls Groq throws it without logging anything.
C13_PropagatedUnmodified ==
  /\ PropagatedUnmodified
  /\ CompletionFailed /\ aiOutcome.k = "throw" =>
       IF aiCall.service = "openai"
         THEN Logged(CompletionError)
         ELSE aiLog = <<>>

\* The completion call failed, recording the error in the trace failed as
\* well and was logged, and the caller was thrown the error of the
\* completion call.
C13_Witness ==
  /\ InvocationDone
  /\ CompletionFailed
  /\ \E i \in DOMAIN aiLog :
       /\ aiLog[i].message = "Error while tracing error:"
       /\ aiLog[i].error # CompletionError
  /\ aiOutcome = Thrown(CompletionError)

\* C14 as claimed: no invocation of an operation issues more than one
\* chat-completion request; handleNonQuestion issues none and returns null
\* when the category is 'general' or not one of greeting, gratitude,
\* knowledge, emotion and command, and has issued exactly one by its end
\* otherwise.
C14_RequestsPerInvocation ==
  /\ Len(aiRequests) <= 1
  /\ InvocationDone /\ aiCall.operation = "handleNonQuestion" =>
       IF aiCall.messageType = "general" \/ aiCall.messageType \notin PromptKeys
         THEN aiRequests = <<>> /\ aiOutcome = Returned(Null)
         ELSE Len(aiRequests) = 1

-----------------------------------------------------------------------------
(* Properties of the Confirmation and Submission steps together *)

\* The Submission answer that turns the contact down: the error status of a
\* dialog, the error text outside one.
Rejected ==
  /\ Answered
  /\ response.body \in {InvalidArgumentStatus, ErrorTextMessage(event)}

\* The answer holds a card or a dialog, the two places of a summary.
CarriesSections(body) ==
  \/ Has(body, "cardsV2")
  \/ /\ Envelope(body).type = "DIALOG"
     /\ Has(Envelope(body).dialogAction, "dialog")

\* The event with every parameter but contactName blanked.
WithNameOnly(e) ==
  [e EXCEPT !.common.parameters =
     [k \in DOMAIN @ |-> IF k = "contactName" THEN @[k] ELSE Str("")]]

\* C15: a Confirmation event whose form entries are all present is always
\* answered with the summary and its Submit control, whatever was entered,
\* the empty name included, and the client then shows that summary, so that
\* the Submit click is possible; a Submission is turned down exactly when
\* the name is empty, and its answer is the one it would get with the
\* birthdate and the type blank.
C15_OnlySubmissionValidates ==
  /\ EntriesPresent =>
       /\ Answered
       /\ CarriesSections(response.body)
       /\ Len(SummaryOf(response.body).widgets) = 5
       /\ Has(SummaryOf(response.body).widgets[5], "buttonList")
       /\ SummaryOf(response.body).widgets[5].buttonList.buttons[1]
            .onClick.action.function = "submitForm"
       /\ IsSummary(ui)
  /\ IsSubmissionEvent =>
       /\ Answered
       /\ Rejected <=> NameIsEmpty
       /\ response = appPost(WithNameOnly(event), tzOffsetMin)

\* The Submit control of a summary that shows an empty name was clicked,
\* with a birthdate among its parameters, and the Submission turned the
\* contact down.
C15_Witness ==
  /\ IsSubmissionEvent
  /\ IsSummary(from)
  /\ NameShown(from) = ""
  /\ event.common.parameters.contactBirthdate # Str("")
  /\ NameIsEmpty
  /\ Rejected

-----------------------------------------------------------------------------
(* The incident form's page script.  The page is the three elements "form", *)
(* "output" and "clear"; an element with the class "hidden" is not          *)
(* displayed, so the user can submit the form only while "form" is shown    *)
(* and can click the reset control only while "clear" is shown.  Each       *)
(* google.script.run call ends in one call of its success handler or of     *)
(* its failure handler.                                                     *)

\* Most handler runs of one page load.
MaxTrail == 9

hide(classList) == classList \cup {"hidden"}

show(classList) == classList \ {"hidden"}

Page(form, output, clear) ==
  [formDiv |-> form, outputDiv |-> output, clearDiv |-> clear]

\* What handleIncident sends back: a space name with and without its
\* prefix, and no string at all.
Responses ==
  {[t |-> "string", pieces |-> <<"spaces/", "AAA">>],
   [t |-> "string", pieces |-> <<"BBB">>], Null}

\* The message of the error a failed call reports.
ErrorMessages == {"Service error", "Not allowed"}

\* String.prototype.replace with a string pattern: its first occurrence is
\* taken out.
RECURSIVE Replace(_, _)
Replace(text, pattern) ==
  IF text = <<>> THEN <<>>
  ELSE IF Head(text) = pattern THEN Tail(text)
  ELSE <<Head(text)>> \o Replace(Tail(text), pattern)

handleFormSubmit(page) ==
  Page(hide(page.formDiv),
       [classList |-> show(page.outputDiv.classList),
        innerHTML |-> <<"Please wait while we create the space...">>],
       page.clearDiv)

\* updateOutput, its argument called spaceName here: its replace throws
\* when it is no string, and the page stays as it is.
updateOutput(page, spaceName) ==
  IF spaceName = Null THEN page
  ELSE Page(page.formDiv,
            [classList |-> show(page.outputDiv.classList),
             innerHTML |->
               Cat(<<"<p>Space created!</p><p><a href=\"https://mail.google.com/chat/#chat/space/">>
                   \o Replace(spaceName.pieces, "spaces/")
                   \o <<"\" target=\"_blank\">Open space</a></p>">>)],
            show(page.clearDiv))

onFailure(page, message) ==
  Page(page.formDiv,
       [classList |-> show(page.outputDiv.classList \cup {"error"}),
        innerHTML |-> Cat(<<"ERROR: ", message>>)],
       show(page.clearDiv))

\* Faulty variant: the error class is left on the output.
MutOnResetKeepsError(page) ==
  Page(show(page.formDiv),
       [classList |-> hide(page.outputDiv.classList), innerHTML |-> <<>>],
       hide(page.clearDiv))

onReset(page) ==
  Page(show(page.formDiv),
       [classList |-> hide(page.outputDiv.classList \ {"error"}),
        innerHTML |-> <<>>],
       hide(page.clearDiv))

Visible(classList) == "hidden" \notin classList

CurrentPage == Page(formDiv, outputDiv, clearDiv)

\* The page after a handler has run.
PageBecomes(page, handler) ==
  /\ formDiv' = page.formDiv
  /\ outputDiv' = page.outputDiv
  /\ clearDiv' = page.clearDiv
  /\ trail' = Append(trail, handler)
  /\ UNCHANGED <<webhookVars, poolVars, fetchVars, aiVars>>

\* The user submits the form: the page waits, the server is called.
SubmitForm(formObject) ==
  /\ Visible(formDiv)
  /\ Len(trail) < MaxTrail
  /\ PageBecomes(handleFormSubmit(CurrentPage), "handleFormSubmit")
  /\ serverCalls' = Append(serverCalls, formObject)

\* A server call succeeds: its success handler runs.
CallSucceeds(spaceName) ==
  /\ serverCalls # <<>>
  /\ PageBecomes(updateOutput(CurrentPage, spaceName), "updateOutput")
  /\ serverCalls' = Tail(serverCalls)

\* A server call fails: its failure handler runs.
CallFails(message) ==
  /\ serverCalls # <<>>
  /\ PageBecomes(onFailure(CurrentPage, message), "onFailure")
  /\ serverCalls' = Tail(serverCalls)

\* The user clicks the reset control.
ClickReset ==
  /\ Visible(clearDiv)
  /\ PageBecomes(onReset(CurrentPage), "onReset")
  /\ UNCHANGED serverCalls

Submit == \E formObject \in {"incident"} : SubmitForm(formObject)

Succeed == \E spaceName \in Responses : CallSucceeds(spaceName)

Fail == \E message \in ErrorMessages : CallFails(message)

NextPage == Submit \/ Succeed \/ Fail \/ ClickReset

SpecPage == Init /\ [][NextPage]_vars

\* The handler ran, and `since` has not run after that run.
RanSince(handler, since) ==
  \E i \in DOMAIN trail :
    /\ trail[i] \in handler
    /\ \A j \in (i + 1)..Len(trail) : trail[j] \notin since

=============================================================================
